---- MODULE Spec2Model ----
(***************************************************************************)
(* Playback-synchronisation engine of the reader (src/index.tsx, the App   *)
(* component): the word cursor, the speech session id, the two narration   *)
(* backends (speechSynthesis utterances, Gemini audio with a sync          *)
(* interval), the timers the handlers arm, and the progress store.         *)
(*                                                                         *)
(* A handler created in one render keeps that render's activeBook and      *)
(* ttsProvider; every pending timer, utterance, request and audio source   *)
(* therefore carries the book and provider its closure captured.           *)
(* The build is one with process.env.API_KEY set, so the gemini backend is *)
(* taken whenever it is selected.                                          *)
(***************************************************************************)
EXTENDS Integers, Sequences, FiniteSets, TLC

\* ---------------------------------------------------------------- bounds
MaxSession == 4
MaxPending == 3
WordLen == 2
MaxBlocks == 3
MaxCount == 2
SaveThreshold == 200

Max(a, b) == IF a >= b THEN a ELSE b
Min(a, b) == IF a <= b THEN a ELSE b
Abs(a) == IF a >= 0 THEN a ELSE 0 - a

\* ------------------------------------------------------------- documents
NoBook == 0
BookIds == {1, 2}
NoRecord == 0 - 1
LongBook == 3
InitLastIndex == {0, 4}
JumpArgs == {0 - 1, 3, 7}
Providers == {"system", "gemini"}

\* Block tables of the two documents of the library (TextBlock without the
\* word strings: the controller only reads wordStartIndex and wordCount).
displayBlocks(b) ==
  IF b = 1 THEN << [wordStartIndex |-> 0, wordCount |-> 3],
                   [wordStartIndex |-> 3, wordCount |-> 2] >>
  ELSE IF b = 2 THEN << [wordStartIndex |-> 0, wordCount |-> 2] >>
  ELSE IF b = LongBook THEN << [wordStartIndex |-> 0, wordCount |-> 150],
                               [wordStartIndex |-> 150, wordCount |-> 150],
                               [wordStartIndex |-> 300, wordCount |-> 150] >>
  ELSE << >>

totalWordsCount(b) ==
  IF b = NoBook THEN 0
  ELSE LET blocks == displayBlocks(b)
       IN IF Len(blocks) = 0 THEN 0
          ELSE blocks[Len(blocks)].wordStartIndex + blocks[Len(blocks)].wordCount

\* Faulty variant of findLoop: the upper end of a block is taken as inside it.
RECURSIVE findLoopInclusive(_, _, _, _)
findLoopInclusive(wIdx, blocks, l, r) ==
  IF l > r THEN Max(0, Min(Len(blocks) - 1, l))
  ELSE LET m == (l + r) \div 2
           b == blocks[m + 1]
       IN IF wIdx >= b.wordStartIndex /\ wIdx <= b.wordStartIndex + b.wordCount THEN m
          ELSE IF wIdx < b.wordStartIndex THEN findLoopInclusive(wIdx, blocks, l, m - 1)
          ELSE findLoopInclusive(wIdx, blocks, m + 1, r)

\* Faulty variant of findLoop: the result of a failed search is not clamped.
RECURSIVE findLoopUnclamped(_, _, _, _)
findLoopUnclamped(wIdx, blocks, l, r) ==
  IF l > r THEN l
  ELSE LET m == (l + r) \div 2
           b == blocks[m + 1]
       IN IF wIdx >= b.wordStartIndex /\ wIdx < b.wordStartIndex + b.wordCount THEN m
          ELSE IF wIdx < b.wordStartIndex THEN findLoopUnclamped(wIdx, blocks, l, m - 1)
          ELSE findLoopUnclamped(wIdx, blocks, m + 1, r)

RECURSIVE findLoop(_, _, _, _)
findLoop(wIdx, blocks, l, r) ==
  IF l > r THEN Max(0, Min(Len(blocks) - 1, l))
  ELSE LET m == (l + r) \div 2
           b == blocks[m + 1]
       IN IF wIdx >= b.wordStartIndex /\ wIdx < b.wordStartIndex + b.wordCount THEN m
          ELSE IF wIdx < b.wordStartIndex THEN findLoop(wIdx, blocks, l, m - 1)
          ELSE findLoop(wIdx, blocks, m + 1, r)

\* findBlockIdx on a block table: 0-based index of the block holding word
\* wIdx (clamped), 0 for no blocks.
findIn(wIdx, blocks) ==
  IF Len(blocks) = 0 THEN 0 ELSE findLoop(wIdx, blocks, 0, Len(blocks) - 1)

findBlockIdx(wIdx, b) == findIn(wIdx, displayBlocks(b))

\* Contiguous block tables of up to MaxBlocks blocks of up to MaxCount words.
RECURSIVE sumTo(_, _)
sumTo(cs, k) == IF k = 0 THEN 0 ELSE cs[k] + sumTo(cs, k - 1)

tableOf(cs) ==
  [k \in 1..Len(cs) |-> [wordStartIndex |-> sumTo(cs, k - 1), wordCount |-> cs[k]]]

BlockTables ==
  { tableOf(cs) : cs \in UNION { [1..n -> 0..MaxCount] : n \in 1..MaxBlocks } }

tableWords(blocks) ==
  IF Len(blocks) = 0 THEN 0
  ELSE blocks[Len(blocks)].wordStartIndex + blocks[Len(blocks)].wordCount

\* ------------------------------------------------------------------ state
VARIABLES
  view,              \* 'library' | 'reader'
  activeBook,        \* id of the open document, NoBook before the first open
  books,             \* in-memory library: lastIndex per book, NoRecord = absent
  db,                \* IndexedDB store: lastIndex per book, NoRecord = absent
  isPlaying,         \* isPlayingRef.current (isPlaying state is set with it)
  wordIdx,           \* wordIdxRef.current: the cursor
  currentWordIndex,  \* displayed word index (React state)
  sessionId,         \* speechSessionIdRef.current
  lastSavedIndex,    \* lastSavedIndexRef.current
  ttsProvider,       \* selected backend
  syncInterval,      \* syncIntervalRef.current: id of a live interval, 0 = none
  audioSource,       \* audioSourceRef.current: id of a live source, 0 = none
  pending,           \* timers, utterances, requests, audio sources in flight
  lastOp,            \* history: the handler that ran last
  blocksIn,          \* findBlockIdx under test: the block table
  wIdxIn,            \* findBlockIdx under test: the word index
  found,             \* findBlockIdx under test: the result, NoRecord before the call
  callIn,            \* parser / chapter index / PCM decoder under test: the argument
  callOut,           \* parser / chapter index / PCM decoder under test: the result
  bookmarks,         \* number of bookmarks per book (in memory and in the store)
  hidden,            \* document.visibilityState = 'hidden'
  wasPlayingBeforeInterruption   \* wasPlayingBeforeInterruption.current

vars == << view, activeBook, books, db, isPlaying, wordIdx, currentWordIndex,
           sessionId, lastSavedIndex, ttsProvider, syncInterval, audioSource,
           pending, lastOp, blocksIn, wIdxIn, found, callIn, callOut, bookmarks,
           hidden, wasPlayingBeforeInterruption >>

\* What the playback handlers never touch: the calls under test and the
\* bookmarks; the visibility handler's own state.
aside == << blocksIn, wIdxIn, found, callIn, callOut, bookmarks >>

visibility == << hidden, wasPlayingBeforeInterruption >>

probe == << aside, visibility >>

Item(id, kind, sid, book, prov, blk, off, st) ==
  [id |-> id, kind |-> kind, sid |-> sid, book |-> book, prov |-> prov,
   blk |-> blk, off |-> off, st |-> st, lastW |-> 0]

FreshId(pend) ==
  CHOOSE i \in 1..(MaxPending + 2) :
    /\ \A p \in pend : p.id # i
    /\ \A j \in 1..(i - 1) : \E p \in pend : p.id = j

Op(name, flag) == [op |-> name, flag |-> flag]

\* --------------------------------------------------------- session guard
\* Faulty variant of sessionIsLive: the comparison is missing.
sessionAlwaysLive(sid) == TRUE

\* sId === speechSessionIdRef.current, for the session id an item captured
sessionIsLive(sid) == sid = sessionId

\* Faulty variant of bumpSession: the increment is missing.
bumpSessionStuck == sessionId

\* speechSessionIdRef.current++
bumpSession == sessionId + 1

\* ------------------------------------------------------------ persistence
\* Faulty variant of updateBookProgress: the record is read but not put back.
updateBookProgressDropped(d, bookId, index) == d

\* The stored record of bookId, if there is one, gets lastIndex = index.
updateBookProgress(d, bookId, index) ==
  IF bookId \in DOMAIN d /\ d[bookId] # NoRecord THEN [d EXCEPT ![bookId] = index] ELSE d

\* Faulty variant of saveProgressImmediate: persists the displayed index instead of
\* the cursor ref.
saveDisplayedIndex(d, cb, idx) ==
  IF cb # NoBook THEN updateBookProgress(d, cb, currentWordIndex) ELSE d

\* db after saveProgressImmediate of a closure whose activeBook is cb
saveProgressImmediate(d, cb, idx) ==
  IF cb # NoBook THEN updateBookProgress(d, cb, idx) ELSE d

savedAfterImmediate(cb, idx) == IF cb # NoBook THEN idx ELSE lastSavedIndex

saveProgressThrottled(cb, idx) == cb # NoBook /\ Abs(idx - lastSavedIndex) > SaveThreshold

\* ------------------------------------------------------- backend requests
\* window.speechSynthesis.cancel(): every queued or speaking utterance is
\* dropped and will report an error event (or end) to its handlers.
speechCancel(pend) ==
  { IF p.kind = "utt" THEN [p EXCEPT !.st = "cancelled"] ELSE p : p \in pend }

\* audioSourceRef.current.stop()
audioStop(pend) ==
  { IF p.kind = "audio" /\ p.id = audioSource THEN [p EXCEPT !.st = "stopped"] ELSE p
    : p \in pend }

\* clearInterval(syncIntervalRef.current)
clearSync(pend) == { p \in pend : ~(p.kind = "tick" /\ p.id = syncInterval) }

\* Words left in block blk of book from in-block offset off.
unitWords(book, blk, off) == Max(0, displayBlocks(book)[blk + 1].wordCount - off)

\* Length of words.slice(offset).join(" ").trim() for n words of WordLen chars.
textLen(n) == IF n = 0 THEN 0 ELSE n * (WordLen + 1) - 1

\* text.substring(0, charIndex).trim().split(/\s+/).length, 0 for an empty prefix
prefixWordCount(charIndex, n) ==
  Cardinality({ k \in 0..(n - 1) : k * (WordLen + 1) < charIndex })

\* Faulty variant of speak: the check of isPlayingRef is missing.
speakWhileStopped(cb, cp, playing, sid, widx, pend) ==
  IF cb = NoBook THEN pend
  ELSE IF Len(displayBlocks(cb)) = 0 THEN clearSync(pend)
  ELSE LET p1 == clearSync(pend)
           bIdx == findBlockIdx(widx, cb)
           block == displayBlocks(cb)[bIdx + 1]
           offset == Max(0, widx - block.wordStartIndex)
       IN IF cp = "gemini"
          THEN p1 \cup { Item(FreshId(p1), "req", sid, cb, cp, bIdx, offset, "wait") }
          ELSE LET p2 == speechCancel(p1)
               IN p2 \cup { Item(FreshId(p2), "utt", sid, cb, cp, bIdx, offset, "live") }

\* speak() of a closure with activeBook cb and ttsProvider cp, called with
\* isPlayingRef = playing, session sid, cursor widx, on the in-flight set pend.
speak(cb, cp, playing, sid, widx, pend) ==
  IF cb = NoBook \/ ~playing THEN pend
  ELSE IF Len(displayBlocks(cb)) = 0 THEN clearSync(pend)
  ELSE LET p1 == clearSync(pend)
           bIdx == findBlockIdx(widx, cb)
           block == displayBlocks(cb)[bIdx + 1]
           offset == Max(0, widx - block.wordStartIndex)
       IN IF cp = "gemini"
          THEN p1 \cup { Item(FreshId(p1), "req", sid, cb, cp, bIdx, offset, "wait") }
          ELSE LET p2 == speechCancel(p1)
               IN p2 \cup { Item(FreshId(p2), "utt", sid, cb, cp, bIdx, offset, "live") }

speakSync(cb, playing) ==
  IF cb = NoBook \/ ~playing \/ Len(displayBlocks(cb)) = 0 THEN syncInterval ELSE 0

\* ------------------------------------------------------------------- Init
\* The App component as mounted: initial state values and refs.
freshApp ==
  /\ view = "library"
  /\ activeBook = NoBook
  /\ isPlaying = FALSE
  /\ wordIdx = 0
  /\ currentWordIndex = 0
  /\ sessionId = 0
  /\ lastSavedIndex = 0
  /\ syncInterval = 0
  /\ audioSource = 0
  /\ pending = {}
  /\ lastOp = Op("init", FALSE)
  /\ bookmarks = [b \in BookIds |-> 0]
  /\ hidden = FALSE
  /\ wasPlayingBeforeInterruption = FALSE

noFind == blocksIn = << >> /\ wIdxIn = 0 /\ found = NoRecord

noCall == callIn = << >> /\ callOut = << >>

\* The argument and the result of the call under test, once there is one.
arg == callIn[1]

result == callOut[1]

returned == callOut # << >>

noProbe == noFind /\ noCall

Init ==
  /\ freshApp
  /\ \E li \in InitLastIndex : db = [b \in BookIds |-> IF b = 1 THEN li ELSE NoRecord]
  /\ books = db
  /\ ttsProvider \in Providers
  /\ noProbe

\* ------------------------------------------------------------- controller
\* jumpTo(idx) of a render whose activeBook is cb and whose speak closes
\* over provider cp.
jumpToBody(idx, cb, cp, d) ==
  LET sid == bumpSession
      p1 == audioStop(speechCancel(pending))
      safeIdx == Max(0, Min(idx, totalWordsCount(cb) - 1))
  IN /\ sessionId' = sid
     /\ wordIdx' = safeIdx
     /\ currentWordIndex' = safeIdx
     /\ db' = IF cb # NoBook THEN updateBookProgress(d, cb, safeIdx) ELSE d
     /\ pending' = IF isPlaying
                   THEN p1 \cup { Item(FreshId(p1), "settle", sid, cb, cp, 0, 0, "wait") }
                   ELSE p1
     /\ UNCHANGED << isPlaying, lastSavedIndex, ttsProvider, syncInterval, audioSource >>

jumpTo(idx) ==
  /\ activeBook # NoBook
  /\ sessionId < MaxSession
  /\ Cardinality(pending) < MaxPending
  /\ jumpToBody(idx, activeBook, ttsProvider, db)
  /\ lastOp' = Op("jumpTo", FALSE)
  /\ UNCHANGED << view, activeBook, books >>
  /\ UNCHANGED probe

openBook(b) ==
  /\ view = "library"
  /\ books[b] # NoRecord
  /\ sessionId < MaxSession
  /\ Cardinality(pending) < MaxPending
  /\ activeBook' = b
  /\ jumpToBody(books[b], activeBook, ttsProvider, db)
  /\ view' = "reader"
  /\ lastOp' = Op("openBook", FALSE)
  /\ UNCHANGED books
  /\ UNCHANGED probe

handleFileUpload(b) ==
  /\ view = "library"
  /\ books[b] = NoRecord
  /\ sessionId < MaxSession
  /\ Cardinality(pending) < MaxPending
  /\ books' = [books EXCEPT ![b] = 0]
  /\ activeBook' = b
  /\ jumpToBody(0, activeBook, ttsProvider, [db EXCEPT ![b] = 0])
  /\ view' = "reader"
  /\ lastOp' = Op("import", FALSE)
  /\ UNCHANGED probe

\* togglePlayback, from the local button ("local") or a MediaSession action
\* handler ("play", "pause").
toggle(src, cap) ==
  /\ activeBook # NoBook
  /\ src = "local" => view = "reader"
  /\ sessionId < cap
  /\ IF isPlaying
     THEN /\ isPlaying' = FALSE
          /\ pending' = audioStop(speechCancel(pending))
          /\ sessionId' = bumpSession
          /\ db' = saveProgressImmediate(db, activeBook, wordIdx)
          /\ lastSavedIndex' = savedAfterImmediate(activeBook, wordIdx)
          /\ UNCHANGED syncInterval
     ELSE /\ Cardinality(pending) < MaxPending
          /\ isPlaying' = TRUE
          /\ sessionId' = bumpSession
          /\ pending' = speak(activeBook, ttsProvider, TRUE, bumpSession, wordIdx, pending)
          /\ syncInterval' = speakSync(activeBook, TRUE)
          /\ UNCHANGED << db, lastSavedIndex >>
  /\ lastOp' = Op(src, isPlaying)
  /\ UNCHANGED << view, activeBook, books, wordIdx, currentWordIndex, ttsProvider,
                  audioSource >>
  /\ UNCHANGED aside

togglePlayback(src) == toggle(src, MaxSession) /\ UNCHANGED visibility

\* The header button that leaves the reader (shown in every view).
goLibrary ==
  /\ isPlaying' = FALSE
  /\ pending' = speechCancel(pending)
  /\ db' = saveProgressImmediate(db, activeBook, wordIdx)
  /\ lastSavedIndex' = savedAfterImmediate(activeBook, wordIdx)
  /\ view' = "library"
  /\ lastOp' = Op("library", FALSE)
  /\ UNCHANGED << activeBook, books, wordIdx, currentWordIndex, sessionId, ttsProvider,
                  syncInterval, audioSource >>
  /\ UNCHANGED probe

\* ------------------------------------------------- callbacks and timers
\* next = block.wordStartIndex + block.wordCount of the block just narrated
nextWordIndex(book, blk) ==
  displayBlocks(book)[blk + 1].wordStartIndex + displayBlocks(book)[blk + 1].wordCount

\* Faulty variant of hasNextBlock: <= instead of <.
hasNextBlockInclusive(next, book, playing) == next <= totalWordsCount(book) /\ playing

\* next < totalWordsCount && isPlayingRef.current
hasNextBlock(next, book, playing) == next < totalWordsCount(book) /\ playing

\* finish() of the speak closure that dispatched item p, run on the in-flight
\* set pend (p already removed).
finish(p, pend) ==
  IF ~sessionIsLive(p.sid)
  THEN /\ pending' = pend
       /\ UNCHANGED << isPlaying, wordIdx, currentWordIndex, db, lastSavedIndex >>
  ELSE LET next == nextWordIndex(p.book, p.blk)
       IN IF hasNextBlock(next, p.book, isPlaying)
          THEN /\ wordIdx' = next
               /\ currentWordIndex' = next
               /\ IF saveProgressThrottled(p.book, next)
                  THEN /\ db' = saveProgressImmediate(db, p.book, next)
                       /\ lastSavedIndex' = savedAfterImmediate(p.book, next)
                  ELSE UNCHANGED << db, lastSavedIndex >>
               /\ pending' = pend \cup
                    { Item(FreshId(pend), "respeak", p.sid, p.book, p.prov, p.blk, 0, "wait") }
               /\ UNCHANGED isPlaying
          ELSE /\ isPlaying' = FALSE
               /\ db' = saveProgressImmediate(db, p.book, wordIdx)
               /\ lastSavedIndex' = savedAfterImmediate(p.book, wordIdx)
               /\ pending' = pend
               /\ UNCHANGED << wordIdx, currentWordIndex >>

\* setTimeout(speak, 50) armed by jumpTo: speak runs under whatever session
\* is live when the timer fires.
settleFire(p) ==
  /\ p.kind = "settle"
  /\ pending' = speak(p.book, p.prov, isPlaying, sessionId, wordIdx, pending \ {p})
  /\ syncInterval' = speakSync(p.book, isPlaying)
  /\ lastOp' = Op("settle", p.sid # sessionId)
  /\ UNCHANGED << view, activeBook, books, db, isPlaying, wordIdx, currentWordIndex,
                  sessionId, lastSavedIndex, ttsProvider, audioSource >>
  /\ UNCHANGED probe

\* setTimeout(() => { if (sId === live) speak(); }, 15) armed by finish
respeakFire(p) ==
  /\ p.kind = "respeak"
  /\ IF sessionIsLive(p.sid)
     THEN /\ pending' = speak(p.book, p.prov, isPlaying, sessionId, wordIdx, pending \ {p})
          /\ syncInterval' = speakSync(p.book, isPlaying)
     ELSE /\ pending' = pending \ {p}
          /\ UNCHANGED syncInterval
  /\ lastOp' = Op("respeak", p.sid # sessionId)
  /\ UNCHANGED << view, activeBook, books, db, isPlaying, wordIdx, currentWordIndex,
                  sessionId, lastSavedIndex, ttsProvider, audioSource >>
  /\ UNCHANGED probe

\* utt.onboundary with name 'word' and the given charIndex
uttBoundary(p, charIndex) ==
  /\ p.kind = "utt" /\ p.st = "live"
  /\ LET block == displayBlocks(p.book)[p.blk + 1]
         count == prefixWordCount(charIndex, unitWords(p.book, p.blk, p.off))
         global == block.wordStartIndex + p.off + count
     IN IF sessionIsLive(p.sid) /\ global >= wordIdx
        THEN wordIdx' = global /\ currentWordIndex' = global
        ELSE UNCHANGED << wordIdx, currentWordIndex >>
  /\ lastOp' = Op("boundary", p.sid # sessionId)
  /\ UNCHANGED << view, activeBook, books, db, isPlaying, sessionId, lastSavedIndex,
                  ttsProvider, syncInterval, audioSource, pending >>
  /\ UNCHANGED probe

\* utt.onend, or utt.onerror for a synthesis error, of a spoken utterance
uttEnd(p) ==
  /\ p.kind = "utt" /\ p.st = "live"
  /\ finish(p, pending \ {p})
  /\ lastOp' = Op("uttEnd", p.sid # sessionId)
  /\ UNCHANGED << view, activeBook, books, sessionId, ttsProvider, syncInterval,
                  audioSource >>
  /\ UNCHANGED probe

\* utt.onerror (or onend) of an utterance that speechSynthesis.cancel() dropped
uttCancelled(p) ==
  /\ p.kind = "utt" /\ p.st = "cancelled"
  /\ finish(p, pending \ {p})
  /\ lastOp' = Op("uttCancelled", p.sid # sessionId)
  /\ UNCHANGED << view, activeBook, books, sessionId, ttsProvider, syncInterval,
                  audioSource >>
  /\ UNCHANGED probe

\* speakNeuralGemini after the awaited generateContent resolved with audio
geminiResolved(p) ==
  /\ p.kind = "req"
  /\ IF ~sessionIsLive(p.sid)
     THEN /\ pending' = pending \ {p}
          /\ UNCHANGED << syncInterval, audioSource >>
     ELSE /\ Cardinality(pending) < MaxPending
          /\ LET p1 == pending \ {p}
                 a == Item(FreshId(p1), "audio", p.sid, p.book, p.prov, p.blk, p.off, "playing")
                 t == Item(FreshId(p1 \cup {a}), "tick", p.sid, p.book, p.prov, p.blk, p.off,
                           "run")
             IN /\ pending' = p1 \cup {a, t}
                /\ audioSource' = a.id
                /\ syncInterval' = t.id
  /\ lastOp' = Op("resolved", p.sid # sessionId)
  /\ UNCHANGED << view, activeBook, books, db, isPlaying, wordIdx, currentWordIndex,
                  sessionId, lastSavedIndex, ttsProvider >>
  /\ UNCHANGED probe

\* speakNeuralGemini threw (request rejected, or no audio in the response):
\* speak's catch selects the system backend and falls through to it.
geminiFailed(p) ==
  /\ p.kind = "req"
  /\ ttsProvider' = "system"
  /\ LET p1 == speechCancel(pending \ {p})
     IN pending' = p1 \cup { Item(FreshId(p1), "utt", p.sid, p.book, p.prov, p.blk, p.off,
                                  "live") }
  /\ lastOp' = Op("failed", p.sid # sessionId)
  /\ UNCHANGED << view, activeBook, books, db, isPlaying, wordIdx, currentWordIndex,
                  sessionId, lastSavedIndex, syncInterval, audioSource >>
  /\ UNCHANGED probe

\* One run of the 50 ms interval; cur = floor(elapsed / wDur).
syncTick(p, cur) ==
  /\ p.kind = "tick"
  /\ IF ~sessionIsLive(p.sid)
     THEN /\ pending' = clearSync(pending)
          /\ syncInterval' = 0
          /\ UNCHANGED currentWordIndex
     ELSE IF cur > p.lastW /\ cur < unitWords(p.book, p.blk, p.off)
     THEN /\ pending' = (pending \ {p}) \cup { [p EXCEPT !.lastW = cur] }
          /\ currentWordIndex' = wordIdx + cur
          /\ UNCHANGED syncInterval
     ELSE UNCHANGED << pending, currentWordIndex, syncInterval >>
  /\ lastOp' = Op("tick", p.sid # sessionId)
  /\ UNCHANGED << view, activeBook, books, db, isPlaying, wordIdx, sessionId,
                  lastSavedIndex, ttsProvider, audioSource >>
  /\ UNCHANGED probe

\* src.onended: the source played to its end or was stopped
audioEnded(p) ==
  /\ p.kind = "audio"
  /\ syncInterval' = 0
  /\ audioSource' = IF audioSource = p.id THEN 0 ELSE audioSource
  /\ finish(p, clearSync(pending \ {p}))
  /\ lastOp' = Op("ended", p.sid # sessionId)
  /\ UNCHANGED << view, activeBook, books, sessionId, ttsProvider >>
  /\ UNCHANGED probe

MaxCur == 2
\* charIndex values of the 'word' boundary events of utterance p: the index
\* of the first character of each word of its text.
CharIndexes(p) == { k * (WordLen + 1) : k \in 0..(unitWords(p.book, p.blk, p.off) - 1) }

Next ==
  \/ \E idx \in JumpArgs : jumpTo(idx)
  \/ \E b \in BookIds : openBook(b)
  \/ \E b \in BookIds : handleFileUpload(b)
  \/ \E src \in {"local", "play", "pause"} : togglePlayback(src)
  \/ goLibrary
  \/ \E p \in pending : settleFire(p)
  \/ \E p \in pending : respeakFire(p)
  \/ \E p \in pending : \E c \in CharIndexes(p) : uttBoundary(p, c)
  \/ \E p \in pending : uttEnd(p)
  \/ \E p \in pending : uttCancelled(p)
  \/ \E p \in pending : geminiResolved(p)
  \/ \E p \in pending : geminiFailed(p)
  \/ \E p \in pending : \E cur \in 0..MaxCur : syncTick(p, cur)
  \/ \E p \in pending : audioEnded(p)

Spec == Init /\ [][Next]_vars

\* ------------------------------------------- progress store, long document
\* The library holds one long document (three blocks of 150 words) and the
\* system backend is selected.
SaveJumpArgs == {160}

\* charIndex of the last word of the utterance text
LastWordChar(p) == textLen(unitWords(p.book, p.blk, p.off)) - WordLen

SaveInit ==
  /\ freshApp
  /\ db = [b \in {LongBook} |-> 0]
  /\ books = db
  /\ ttsProvider = "system"
  /\ noProbe

SaveNext ==
  \/ openBook(LongBook)
  \/ \E idx \in SaveJumpArgs : jumpTo(idx)
  \/ togglePlayback("local")
  \/ goLibrary
  \/ \E p \in pending : settleFire(p)
  \/ \E p \in pending : respeakFire(p)
  \/ \E p \in pending : uttBoundary(p, LastWordChar(p))
  \/ \E p \in pending : uttEnd(p)
  \/ \E p \in pending : uttCancelled(p)

SaveSpec == SaveInit /\ [][SaveNext]_vars

\* ------------------------------------------------- findBlockIdx on its own
idle == UNCHANGED << view, activeBook, books, db, isPlaying, wordIdx, currentWordIndex,
                     sessionId, lastSavedIndex, ttsProvider, syncInterval, audioSource,
                     pending, lastOp, bookmarks, hidden, wasPlayingBeforeInterruption >>

FindInit ==
  /\ freshApp
  /\ db = [b \in BookIds |-> NoRecord]
  /\ books = db
  /\ ttsProvider = "system"
  /\ blocksIn \in BlockTables
  /\ wIdxIn \in 0..(tableWords(blocksIn) - 1)
  /\ found = NoRecord
  /\ noCall

\* findBlockIdx(wIdxIn, { displayBlocks: blocksIn })
findApply ==
  /\ found = NoRecord
  /\ found' = findIn(wIdxIn, blocksIn)
  /\ UNCHANGED << blocksIn, wIdxIn, callIn, callOut >>
  /\ idle

\* The next call, with another table and index.
findPick ==
  /\ found # NoRecord
  /\ blocksIn' \in BlockTables
  /\ wIdxIn' \in 0..(tableWords(blocksIn') - 1)
  /\ found' = NoRecord
  /\ UNCHANGED << callIn, callOut >>
  /\ idle

FindNext == findApply \/ findPick

FindSpec == FindInit /\ [][FindNext]_vars

\* ------------------------------------------------------------ properties
GuardedOps == {"respeak", "boundary", "uttEnd", "uttCancelled", "resolved", "failed",
               "tick", "ended"}
AsyncOps == GuardedOps \cup {"settle"}
UnitKinds == {"utt", "req", "audio"}

clampIdx(idx, b) == Max(0, Min(idx, totalWordsCount(b) - 1))

\* The step just taken ran a callback or timer armed under an older session.
StaleStep == lastOp'.op \in AsyncOps /\ lastOp'.flag

\* The step just taken ran a callback whose captured session id is not live.
StaleGuardedStep == lastOp'.op \in GuardedOps /\ lastOp'.flag

\* Narration units dispatched under the live session and still in flight.
liveUnits == { p \in pending : p.kind \in UnitKinds /\ p.sid = sessionId }

\* The interval held in syncIntervalRef belongs to the live session.
liveHandle ==
  \E p \in pending : p.kind = "tick" /\ p.id = syncInterval /\ p.sid = sessionId

\* C1: a jumpTo(y) issued while the settle timer of an earlier jump is still
\* pending leaves the cursor at clamp(y), and no callback or timer armed
\* under an older session (utterance events, interval tick, audio-ended,
\* gemini continuation, re-speak timer, the earlier settle timer) changes
\* the cursor when it runs.
C1_StaleNeverMovesCursor ==
  [][ /\ \A idx \in JumpArgs :
           (jumpTo(idx) /\ isPlaying /\ \E p \in pending : p.kind = "settle")
             => wordIdx' = clampIdx(idx, activeBook)
      /\ StaleStep => wordIdx' = wordIdx ]_vars

\* Two jumps within the settle delay while Playing; the first jump's timer
\* has then fired while the second jump's timer is still pending.
C1_Witness ==
  /\ lastOp = Op("settle", TRUE)
  /\ isPlaying
  /\ wordIdx = 3
  /\ \E p \in pending : p.kind = "settle" /\ p.sid = sessionId
  /\ liveUnits # {}

\* C2: a callback or timer whose captured session id differs from the live
\* one is a complete no-op: cursor, displayed index, playing, session id,
\* persisted progress, selected backend and the live session's interval
\* handle are all unchanged.
C2_StaleIsNoOp ==
  [][ StaleGuardedStep =>
        /\ UNCHANGED << wordIdx, currentWordIndex, isPlaying, sessionId, db, ttsProvider >>
        /\ liveHandle => (syncInterval' = syncInterval /\ liveHandle') ]_vars

\* C3: at most one narration unit dispatched under the live session is in
\* flight at any time.
C3_OneLiveUnit == Cardinality(liveUnits) <= 1

\* C4: sessionId never decreases, and every play, pause and jumpTo
\* (including the jumpTo of opening or importing a document) increases it.
C4_SessionMonotonic ==
  [][ /\ sessionId' >= sessionId
      /\ lastOp'.op \in {"jumpTo", "openBook", "import", "local", "play", "pause"}
           => sessionId' > sessionId ]_vars

\* The fourth session-bumping operation was a pause.
C4_Witness == sessionId = 4 /\ lastOp = Op("local", TRUE) /\ ~isPlaying

\* C5: the value pause() persists for the open document is the cursor at
\* the instant pause() was invoked.
C5_PausePersistsCursor ==
  [][ (lastOp'.op \in {"local", "play", "pause"} /\ isPlaying)
        => (db'[activeBook] = wordIdx /\ wordIdx' = wordIdx) ]_vars

\* A pause after progress events moved the cursor and the displayed index.
C5_Witness ==
  /\ lastOp.op \in {"local", "pause"} /\ lastOp.flag
  /\ wordIdx \in {1, 2}
  /\ db[activeBook] = wordIdx
  /\ currentWordIndex # wordIdx

\* Item p is a narration unit of the live session that completes in this
\* step (utterance end, or end of the audio source) while Playing.
completesLive(p) ==
  /\ uttEnd(p) \/ (audioEnded(p) /\ p.st = "playing")
  /\ p.sid = sessionId
  /\ isPlaying

unitStart(u) == displayBlocks(u.book)[u.blk + 1].wordStartIndex + u.off

\* C6: when a unit of the live session completes for block b while Playing
\* and b.start + b.count < totalWords, the cursor becomes b.start + b.count
\* and the re-speak timer armed for it dispatches the next unit from exactly
\* that index under the same session id.
C6_AdvanceToNextBlock ==
  [][ /\ \A p \in pending :
           (completesLive(p) /\ nextWordIndex(p.book, p.blk) < totalWordsCount(p.book))
             => /\ wordIdx' = nextWordIndex(p.book, p.blk)
                /\ sessionId' = sessionId
                /\ \E r \in pending' \ pending :
                     r.kind = "respeak" /\ r.sid = sessionId /\ r.blk = p.blk
      /\ \A r \in pending :
           (respeakFire(r) /\ r.sid = sessionId /\ isPlaying)
             => \E u \in pending' \ pending :
                  /\ u.kind \in {"utt", "req"}
                  /\ u.sid = sessionId
                  /\ unitStart(u) = nextWordIndex(r.book, r.blk) ]_vars

\* C7: when the unit of the last block completes under the live session, the
\* controller becomes Stopped, the completion leaves the cursor where it was
\* (it is not advanced to next = totalWords), and the cursor is persisted at
\* once in the record of the narrated document.
C7_EndOfDocumentStops ==
  [][ \A p \in pending :
        (/\ uttEnd(p) \/ (audioEnded(p) /\ p.st = "playing")
         /\ p.sid = sessionId
         /\ nextWordIndex(p.book, p.blk) = totalWordsCount(p.book))
          => /\ isPlaying' = FALSE
             /\ wordIdx' = wordIdx
             /\ db'[p.book] = wordIdx
             /\ \A r \in pending' \ pending : r.kind # "respeak" ]_vars

\* Scenario B: the unit [now] of blocks [3 | 2] ended with the cursor at 4.
C7_Witness ==
  /\ lastOp = Op("uttEnd", FALSE)
  /\ activeBook = 1
  /\ ~isPlaying
  /\ wordIdx = 4
  /\ db[1] = 4
  /\ liveUnits = {}

\* C8: after jumpTo(idx) the cursor is max(0, min(idx, totalWords - 1)) for
\* the document open at the call; for the jumpTo issued by opening or
\* importing a document, that document is the one being opened.
C8_JumpClamps ==
  [][ /\ \A idx \in JumpArgs : jumpTo(idx) => wordIdx' = clampIdx(idx, activeBook)
      /\ \A b \in BookIds : openBook(b) => wordIdx' = clampIdx(books[b], b)
      /\ \A b \in BookIds : handleFileUpload(b) => wordIdx' = clampIdx(0, b) ]_vars

\* C9: after a document whose last-persisted cursor is p, 0 <= p < totalWords,
\* is opened, the controller is Stopped with cursor = p.
C9_OpenRestoresCursor ==
  [][ \A b \in BookIds :
        (openBook(b) /\ db[b] >= 0 /\ db[b] < totalWordsCount(b))
          => (~isPlaying' /\ wordIdx' = db[b]) ]_vars

\* C10: a play request arriving while already Playing changes none of
\* playing, sessionId, cursor and the units in flight.
C10_PlayWhilePlayingNoOp ==
  [][ (togglePlayback("play") /\ isPlaying)
        => UNCHANGED << isPlaying, sessionId, wordIdx, pending >> ]_vars

\* C11: whenever the external 'pause' action is handled the controller ends
\* up Stopped; a 'pause' arriving while Stopped never starts narration.
C11_ExternalPauseStops ==
  [][ togglePlayback("pause") => (~isPlaying' /\ (~isPlaying => pending' = pending)) ]_vars

\* C12: once a request to the gemini backend has failed (the selected backend
\* is then "system"), no later step makes a request to the gemini backend.
C12_FallbackIsPermanent ==
  [][ ttsProvider = "system" =>
        \A r \in pending' \ pending : r.kind # "req" ]_vars

\* C13: the error event of an utterance that speechSynthesis.cancel() dropped
\* is a silent no-op: finish does not act, the cursor does not move.
C13_CancelErrorSilent ==
  [][ \A p \in pending :
        uttCancelled(p) =>
          /\ UNCHANGED << wordIdx, currentWordIndex, isPlaying, db, lastSavedIndex >>
          /\ pending' = pending \ {p} ]_vars

\* What finish does for the segment of item p while Playing: move on to the
\* next block, or stop at the end of the document.
completionEffect(p) ==
  IF nextWordIndex(p.book, p.blk) < totalWordsCount(p.book)
  THEN /\ wordIdx' = nextWordIndex(p.book, p.blk)
       /\ \E r \in pending' \ pending : r.kind = "respeak" /\ r.blk = p.blk
  ELSE ~isPlaying'

\* C14: a synthesis error of the live session while Playing, from the system
\* backend (utterance error) or from the gemini backend (failed request), is
\* handled as a completion of that segment.
C14_ErrorCompletesSegment ==
  [][ \A p \in pending :
        /\ (uttEnd(p) /\ p.sid = sessionId /\ isPlaying) => completionEffect(p)
        /\ (geminiFailed(p) /\ p.sid = sessionId /\ isPlaying) => completionEffect(p) ]_vars

\* Candidate index of a word-boundary event of utterance p at charIndex c.
candidate(p, c) == unitStart(p) + prefixWordCount(c, unitWords(p.book, p.blk, p.off))

\* C15: a word-boundary event of the live session moves the cursor to its
\* candidate index only if candidate >= cursor, and no step other than a
\* jumpTo or an open/import lowers the cursor.
C15_CursorForwardOnly ==
  [][ /\ \A p \in pending : \A c \in CharIndexes(p) :
           (uttBoundary(p, c) /\ p.sid = sessionId) =>
              wordIdx' = IF candidate(p, c) >= wordIdx THEN candidate(p, c) ELSE wordIdx
      /\ lastOp'.op \notin {"jumpTo", "openBook", "import"} => wordIdx' >= wordIdx ]_vars

\* C16: a tick of the live session with lastW < cur < word count advances
\* the cursor to segment start + cur; any other tick leaves it alone.
C16_TickAdvancesCursor ==
  [][ \A p \in pending : \A cur \in 0..MaxCur :
        (syncTick(p, cur) /\ p.sid = sessionId) =>
           wordIdx' = IF cur > p.lastW /\ cur < unitWords(p.book, p.blk, p.off)
                      THEN unitStart(p) + cur ELSE wordIdx ]_vars

\* C17: on a segment completion in mid-playback, a progress write is issued
\* only if the new cursor is more than SaveThreshold words beyond the value
\* most recently persisted for the document.
C17_ThrottledWriteOnlyPastThreshold ==
  [][ \A p \in pending :
        (/\ completesLive(p)
         /\ nextWordIndex(p.book, p.blk) < totalWordsCount(p.book)
         /\ saveProgressThrottled(p.book, nextWordIndex(p.book, p.blk)))
          => nextWordIndex(p.book, p.blk) - db[p.book] > SaveThreshold ]_vars

\* C18: while Playing, the cursor is never more than SaveThreshold words
\* ahead of the persisted cursor of the open document.
C18_LossBoundedByThreshold ==
  (isPlaying /\ activeBook # NoBook) => wordIdx - db[activeBook] <= SaveThreshold

containsIn(blocks, k, w) ==
  blocks[k].wordStartIndex <= w /\ w < blocks[k].wordStartIndex + blocks[k].wordCount

\* C19: for a contiguous non-empty block table and an index i with
\* 0 <= i < totalWords, findBlockIdx returns the index of the one block b
\* with b.start <= i < b.start + b.count.
C19_FindReturnsContainingBlock ==
  found # NoRecord =>
    /\ found \in 0..(Len(blocksIn) - 1)
    /\ \A k \in 1..Len(blocksIn) : containsIn(blocksIn, k, wIdxIn) <=> k = found + 1

\* The last word of a three-block table was looked up, across an empty block.
C19_Witness ==
  /\ found = 2
  /\ Len(blocksIn) = 3
  /\ blocksIn[2].wordCount = 0
  /\ wIdxIn = tableWords(blocksIn) - 1
  /\ wIdxIn > 0

\* Item u is a narration unit handed to a backend in this step.
dispatched(u) ==
  /\ u \in pending' \ pending
  /\ (u.kind = "utt" /\ u.st = "live") \/ u.kind = "req"

\* C20: every narration unit dispatched is the suffix words[offset..] of the
\* block of its document that contains the cursor, offset = cursor - start,
\* and it is not empty.
C20_UnitIsBlockSuffix ==
  [][ \A u \in pending' :
        dispatched(u) =>
          /\ containsIn(displayBlocks(u.book), u.blk + 1, wordIdx')
          /\ u.off = wordIdx' - displayBlocks(u.book)[u.blk + 1].wordStartIndex
          /\ unitWords(u.book, u.blk, u.off) > 0 ]_vars

\* ---------------------------------------------------------------------
\* Document parsers: extractEpub, extractPdf and the flat-text branch of
\* handleFileUpload.  A text is modelled by its number of words, which is
\* all that the block and chapter tables depend on.
\* ---------------------------------------------------------------------

MaxItems == 2

MaxPages == 10

PageStep == 10

\* What happens to one spine item inside the try block of the loop:
\*   "ok"        every statement succeeds,
\*   "empty"     getText yields no markup (if (!rawHtml) continue),
\*   "fetchFail" getText rejects, before the table of contents is matched,
\*   "walkFail"  an exception is thrown while the body text is collected,
\*               after the matching entries were pushed.
ItemFates == {"ok", "empty", "fetchFail", "walkFail"}

\* Word counts of the pieces between paragraph markers of one item.
ItemParas == { << >>, << 0 >>, << 2 >>, << 1, 0, 2 >> }

\* Anchor word offsets of the table-of-contents entries that match one
\* item, in table-of-contents order.
TocMatches == { << >>, << 0 >>, << 0, 0 >>, << 1, 0 >> }

SpineItems ==
  { [fate |-> f, paras |-> << >>, tocs |-> << >>] : f \in {"empty", "fetchFail"} }
    \cup { it \in [fate : {"ok", "walkFail"}, paras : ItemParas, tocs : TocMatches] :
             \A k \in 1..Len(it.tocs) : it.tocs[k] <= sumTo(it.paras, Len(it.paras)) }

PageWords == {0, 2}

\* A chapter entry; pageNumber 0 stands for an entry without that field.
ChapterEntry(start, page) == [startIndex |-> start, pageNumber |-> page]

\* Faulty variant of paraBlocks: every block of an item starts at the
\* item's own offset.
RECURSIVE paraBlocksFromItem(_, _, _)
paraBlocksFromItem(paras, totalWordCount, spineWordCount) ==
  IF paras = << >> THEN << >>
  ELSE IF Head(paras) > 0
       THEN << [wordStartIndex |-> totalWordCount, wordCount |-> Head(paras)] >>
              \o paraBlocksFromItem(Tail(paras), totalWordCount,
                                    spineWordCount + Head(paras))
       ELSE paraBlocksFromItem(Tail(paras), totalWordCount, spineWordCount)

\* The paragraph loop of extractEpub: one block per piece with at least
\* one word, starting at totalWordCount + spineWordCount.
RECURSIVE paraBlocks(_, _, _)
paraBlocks(paras, totalWordCount, spineWordCount) ==
  IF paras = << >> THEN << >>
  ELSE IF Head(paras) > 0
       THEN << [wordStartIndex |-> totalWordCount + spineWordCount,
                wordCount |-> Head(paras)] >>
              \o paraBlocks(Tail(paras), totalWordCount,
                            spineWordCount + Head(paras))
       ELSE paraBlocks(Tail(paras), totalWordCount, spineWordCount)

\* for (const match of matches) chapters.push({..., startIndex: totalWordCount})
matchChapters(chapters, tocs, totalWordCount) ==
  chapters \o [k \in 1..Len(tocs) |-> ChapterEntry(totalWordCount, 0)]

\* The same loop in the revision with anchors: the entry starts at the
\* anchor's word offset and is pushed unless the entry pushed last has the
\* same start.
RECURSIVE anchorChapters(_, _, _)
anchorChapters(chapters, tocs, totalWordCount) ==
  IF tocs = << >> THEN chapters
  ELSE LET startIndex == totalWordCount + Head(tocs)
           lastCh     == chapters[Len(chapters)]
       IN  anchorChapters(
             IF chapters = << >> \/ lastCh.startIndex # startIndex
               THEN Append(chapters, ChapterEntry(startIndex, 0))
               ELSE chapters,
             Tail(tocs), totalWordCount)

\* chapters.sort((a, b) => a.startIndex - b.startIndex): a stable sort.
RECURSIVE insertChapter(_, _)
insertChapter(sorted, ch) ==
  IF sorted = << >> THEN << ch >>
  ELSE IF sorted[Len(sorted)].startIndex <= ch.startIndex
       THEN Append(sorted, ch)
       ELSE Append(insertChapter(SubSeq(sorted, 1, Len(sorted) - 1), ch),
                   sorted[Len(sorted)])

RECURSIVE sortChapters(_)
sortChapters(chapters) ==
  IF chapters = << >> THEN << >>
  ELSE insertChapter(sortChapters(SubSeq(chapters, 1, Len(chapters) - 1)),
                     chapters[Len(chapters)])

\* The loop over the spine items; anchored selects the revision.
RECURSIVE spineLoop(_, _, _)
spineLoop(items, acc, anchored) ==
  IF items = << >> THEN acc
  ELSE LET item    == Head(items)
           matched == [acc EXCEPT !.chapters =
                         IF anchored
                           THEN anchorChapters(@, item.tocs, acc.totalWordCount)
                           ELSE matchChapters(@, item.tocs, acc.totalWordCount)]
           walked  == [matched EXCEPT
                         !.displayBlocks =
                            @ \o paraBlocks(item.paras, acc.totalWordCount, 0),
                         !.totalWordCount =
                            @ + sumTo(item.paras, Len(item.paras))]
       IN  spineLoop(Tail(items),
                     CASE item.fate \in {"empty", "fetchFail"} -> acc
                       [] item.fate = "walkFail" -> matched
                       [] OTHER -> walked,
                     anchored)

parsed(blocks, chs) == [displayBlocks |-> blocks, chapters |-> chs]

emptyParse == [displayBlocks |-> << >>, chapters |-> << >>, totalWordCount |-> 0]

extractEpub(items) ==
  LET r == spineLoop(items, emptyParse, FALSE)
  IN  parsed(r.displayBlocks, sortChapters(r.chapters))

\* extractEpub of the revision that resolves anchors.
extractEpubAnchored(items) ==
  LET r == spineLoop(items, emptyParse, TRUE)
  IN  parsed(r.displayBlocks, sortChapters(r.chapters))

\* The page loop of extractPdf; a page with no text is passed over whole.
RECURSIVE pageLoop(_, _, _)
pageLoop(pages, i, acc) ==
  IF i > Len(pages) THEN acc
  ELSE pageLoop(pages, i + 1,
         IF pages[i] > 0
           THEN [displayBlocks |->
                   Append(acc.displayBlocks,
                          [wordStartIndex |-> acc.totalWordCount,
                           wordCount |-> pages[i]]),
                 chapters |->
                   IF i = 1 \/ i % PageStep = 0
                     THEN Append(acc.chapters,
                                 ChapterEntry(acc.totalWordCount, i))
                     ELSE acc.chapters,
                 totalWordCount |-> acc.totalWordCount + pages[i]]
           ELSE acc)

extractPdf(pages) ==
  LET r == pageLoop(pages, 1, emptyParse)
  IN  parsed(r.displayBlocks, r.chapters)

\* The flat-text branch: one block holding every word of the file.
extractText(words) ==
  parsed(<< [wordStartIndex |-> 0, wordCount |-> words] >>, << >>)

\* The files handed to the import, with at most maxItems spine items or
\* maxPages pages: the extension, whether the archive can be opened at all,
\* and the content.
ImportFiles(maxItems, maxPages) ==
  { [fmt |-> "epub", readable |-> TRUE, items |-> its, pages |-> << >>, words |-> 0] :
      its \in UNION { [1..n -> SpineItems] : n \in 0..maxItems } }
    \cup { [fmt |-> "pdf", readable |-> TRUE, items |-> << >>, pages |-> ps, words |-> 0] :
             ps \in UNION { [1..n -> PageWords] : n \in 0..maxPages } }
    \cup { [fmt |-> "txt", readable |-> TRUE, items |-> << >>, pages |-> << >>, words |-> w] :
             w \in 0..MaxCount }
    \cup { [fmt |-> f, readable |-> FALSE, items |-> << >>, pages |-> << >>, words |-> 0] :
             f \in {"epub", "pdf"} }

\* handleFileUpload up to saveBookToDB: the book is stored and opened
\* unless an extractor rejects, which only an unreadable archive causes.
importFile(file, anchored) ==
  IF ~file.readable
    THEN [stored |-> FALSE, displayBlocks |-> << >>, chapters |-> << >>]
    ELSE LET res == CASE file.fmt = "epub" ->
                           IF anchored THEN extractEpubAnchored(file.items)
                                       ELSE extractEpub(file.items)
                      [] file.fmt = "pdf" -> extractPdf(file.pages)
                      [] OTHER -> extractText(file.words)
         IN  [stored |-> TRUE, displayBlocks |-> res.displayBlocks,
              chapters |-> res.chapters]

noFindCall == UNCHANGED << blocksIn, wIdxIn, found >>

ParseInit ==
  /\ freshApp
  /\ db = [b \in BookIds |-> 0]
  /\ books = db
  /\ ttsProvider = "system"
  /\ noFind
  /\ \E file \in ImportFiles(MaxItems, MaxPages) :
       \E anchored \in (IF file.fmt = "epub" THEN BOOLEAN ELSE {FALSE}) :
         callIn = << [file |-> file, anchored |-> anchored] >>
  /\ callOut = << >>

\* The import runs on the chosen file.
importApply ==
  /\ ~returned
  /\ callOut' = << importFile(arg.file, arg.anchored) >>
  /\ UNCHANGED callIn
  /\ noFindCall
  /\ idle

ParseNext == importApply

ParseSpec == ParseInit /\ [][ParseNext]_vars

\* The import of a file by the revision without anchors has run.
imported == returned /\ ~arg.anchored

contiguous(blocks) ==
  /\ blocks # << >> => blocks[1].wordStartIndex = 0
  /\ \A k \in 1..(Len(blocks) - 1) :
       blocks[k + 1].wordStartIndex = blocks[k].wordStartIndex + blocks[k].wordCount

\* C21: in every parser output (container items that are empty, failing or
\* non-empty; pages that are empty or not; flat text) the first block starts
\* at 0 and each block starts where the block before it ends.
C21_BlocksContiguous ==
  (returned /\ result.stored) => contiguous(result.displayBlocks)

\* A container file whose first item failed after its chapters were pushed
\* and whose second item has two paragraphs with words was parsed.
C21_Witness ==
  /\ imported
  /\ arg.file.fmt = "epub"
  /\ Len(arg.file.items) = 2
  /\ arg.file.items[1].fate = "walkFail"
  /\ arg.file.items[1].paras = << 2 >>
  /\ arg.file.items[2].fate = "ok"
  /\ Len(result.displayBlocks) = 2
  /\ result.displayBlocks[2].wordStartIndex = 1

\* C22: a document that yields zero words overall is a hard failure of the
\* import: no book with an empty block list or an empty block is stored.
C22_ZeroWordsRejected ==
  (imported /\ result.stored) =>
    /\ result.displayBlocks # << >>
    /\ \A k \in 1..Len(result.displayBlocks) : result.displayBlocks[k].wordCount > 0

\* The item's processing ran to the end of the try block, or there was
\* nothing to process.
itemSucceeds(item) == item.fate \in {"ok", "empty"}

\* C23: a content item whose processing fails at any point contributes zero
\* words and zero chapters, and the remaining items are processed with
\* offsets continuing from the last successful item: the result is the one
\* the same container gives without its failing items.
C23_FailedItemContributesNothing ==
  (imported /\ arg.file.fmt = "epub" /\ result.stored) =>
    LET clean == extractEpub(SelectSeq(arg.file.items, itemSucceeds))
    IN  /\ result.displayBlocks = clean.displayBlocks
        /\ result.chapters = clean.chapters

strictlyAscending(chapters) ==
  \A k \in 1..(Len(chapters) - 1) :
    chapters[k].startIndex < chapters[k + 1].startIndex

\* C24: the chapter list returned by the container parser, in either
\* revision, is strictly ascending by start: sorted, and no two entries
\* share a start, whatever the table of contents.
C24_ChaptersStrictlyAscending ==
  (returned /\ arg.file.fmt = "epub" /\ result.stored) =>
    strictlyAscending(result.chapters)

\* C28: the paginated parser emits an anchor for page 1 and for every page
\* whose number is a multiple of 10, carrying the page number and starting
\* at the global offset of the page's first word.
C28_PageAnchors ==
  (imported /\ arg.file.fmt = "pdf" /\ result.stored) =>
    \A i \in 1..Len(arg.file.pages) :
      (i = 1 \/ i % PageStep = 0) =>
        \E k \in 1..Len(result.chapters) :
          result.chapters[k] = ChapterEntry(sumTo(arg.file.pages, i - 1), i)

\* ---------------------------------------------------------------------
\* Chapter lookup: currentChapter (both revisions) and the chapter found
\* by the next / previous track handlers.  A chapter is returned as its
\* position in the table, 0 when none is returned.
\* ---------------------------------------------------------------------

MaxChapters == 3

NextSkip == 1

PrevSkip == 5

NoChapter == 0

ChapterStarts == {0, 3, 100}

CursorArgs == {0, 2, 3, 4, 8, 9, 98, 99, 100, 105, 106}

\* The chapter tables a parser returns: sorted by start, equal starts allowed.
ChapterTables ==
  { [k \in 1..Len(ss) |-> ChapterEntry(ss[k], 0)] :
      ss \in { t \in UNION { [1..n -> ChapterStarts] : n \in 0..MaxChapters } :
                 \A k \in 1..(Len(t) - 1) : t[k] <= t[k + 1] } }

\* Faulty variant of currentScan: the test looks ahead of the index.
RECURSIVE currentScanAhead(_, _, _)
currentScanAhead(chapters, i, idx) ==
  IF i = 0 THEN 1
  ELSE IF chapters[i].startIndex >= idx THEN i
       ELSE currentScanAhead(chapters, i - 1, idx)

\* for (let i = chapters.length - 1; i >= 0; i--) ...; return chapters[0]
RECURSIVE currentScan(_, _, _)
currentScan(chapters, i, idx) ==
  IF i = 0 THEN 1
  ELSE IF chapters[i].startIndex <= idx THEN i
       ELSE currentScan(chapters, i - 1, idx)

currentChapter(chapters, idx) ==
  IF chapters = << >> THEN NoChapter
  ELSE currentScan(chapters, Len(chapters), idx)

\* The binary search of the later revision; low and high are 0-based.
RECURSIVE currentBisect(_, _, _, _, _)
currentBisect(chapters, low, high, ch, idx) ==
  IF low > high THEN ch
  ELSE LET mid == (low + high) \div 2
       IN  IF chapters[mid + 1].startIndex <= idx
             THEN currentBisect(chapters, mid + 1, high, mid + 1, idx)
             ELSE currentBisect(chapters, low, mid - 1, ch, idx)

currentChapterBisect(chapters, idx) ==
  IF chapters = << >> THEN NoChapter
  ELSE currentBisect(chapters, 0, Len(chapters) - 1, 1, idx)

\* Array.prototype.find from position k: the first element that passes.
RECURSIVE findAfter(_, _, _)
findAfter(chapters, k, bound) ==
  IF k > Len(chapters) THEN NoChapter
  ELSE IF chapters[k].startIndex > bound THEN k
       ELSE findAfter(chapters, k + 1, bound)

\* Faulty variant of nextChapter: no word is skipped.
nextChapterNoSkip(chapters, idx) == findAfter(chapters, 1, idx)

\* chapters.find(c => c.startIndex > wordIdxRef.current + 1)
nextChapter(chapters, idx) == findAfter(chapters, 1, idx + NextSkip)

\* The last element of chapters.filter(c => c.startIndex < bound).
RECURSIVE lastBefore(_, _, _)
lastBefore(chapters, k, bound) ==
  IF k = 0 THEN NoChapter
  ELSE IF chapters[k].startIndex < bound THEN k
       ELSE lastBefore(chapters, k - 1, bound)

\* Faulty variant of previousChapter: no word is skipped.
previousChapterNoSkip(chapters, idx) == lastBefore(chapters, Len(chapters), idx)

\* prevChs = chapters.filter(c => c.startIndex < wordIdxRef.current - 5);
\* prevChs[prevChs.length - 1]
previousChapter(chapters, idx) ==
  lastBefore(chapters, Len(chapters), idx - PrevSkip)

ChapterCalls ==
  { c \in [chapters : ChapterTables, i : CursorArgs, j : CursorArgs] : c.i <= c.j }

ChapterInit ==
  /\ freshApp
  /\ db = [b \in BookIds |-> 0]
  /\ books = db
  /\ ttsProvider = "system"
  /\ noFind
  /\ callIn \in { << c >> : c \in ChapterCalls }
  /\ callOut = << >>

\* The lookups run on the chosen table: current at both indices, next and
\* previous at the first.
chapterApply ==
  /\ ~returned
  /\ callOut' = << [current    |-> currentChapter(arg.chapters, arg.i),
                    currentJ   |-> currentChapter(arg.chapters, arg.j),
                    bisect     |-> currentChapterBisect(arg.chapters, arg.i),
                    bisectJ    |-> currentChapterBisect(arg.chapters, arg.j),
                    next       |-> nextChapter(arg.chapters, arg.i),
                    previous   |-> previousChapter(arg.chapters, arg.i)] >>
  /\ UNCHANGED callIn
  /\ noFindCall
  /\ idle

ChapterNext == chapterApply

ChapterSpec == ChapterInit /\ [][ChapterNext]_vars

\* C25: for every chapter table a parser can produce and all i <= j, the
\* chapter current(i) returns is at the same or an earlier table position
\* than the one current(j) returns, in both revisions of currentChapter.
C25_CurrentMonotone ==
  returned => (result.current <= result.currentJ /\ result.bisect <= result.bisectJ)

\* current was looked up before the first chapter and inside the last of
\* three chapters, two of which share a start.
C25_Witness ==
  /\ returned
  /\ Len(arg.chapters) = 3
  /\ arg.chapters[1].startIndex = 3
  /\ arg.chapters[2].startIndex = 100
  /\ arg.chapters[3].startIndex = 100
  /\ arg.i = 2
  /\ arg.j = 105
  /\ result.current = 1
  /\ result.currentJ = 3
  /\ result.bisect = 1
  /\ result.bisectJ = 3

\* C26: next(idx) is the first chapter, in ascending start order, whose
\* start is greater than idx + 1, and none when no chapter qualifies.
C26_NextSkipsOneWord ==
  returned =>
    LET after == { k \in 1..Len(arg.chapters) : arg.chapters[k].startIndex > arg.i + 1 }
    IN  IF after = {} THEN result.next = NoChapter
        ELSE /\ result.next \in after
             /\ \A k \in after : result.next <= k

\* Chapters at 0 and 100 with the cursor at 105: there is no next chapter.
C26_Witness ==
  /\ returned
  /\ Len(arg.chapters) = 2
  /\ arg.chapters[1].startIndex = 0
  /\ arg.chapters[2].startIndex = 100
  /\ arg.i = 105
  /\ result.next = NoChapter

\* C27: previous(idx) is the last chapter, in ascending start order, whose
\* start is less than idx - 5, and none when no chapter qualifies.
C27_PreviousSkipsFiveWords ==
  returned =>
    LET before == { k \in 1..Len(arg.chapters) : arg.chapters[k].startIndex < arg.i - 5 }
    IN  IF before = {} THEN result.previous = NoChapter
        ELSE /\ result.previous \in before
             /\ \A k \in before : k <= result.previous

\* Chapters at 0 and 100 with the cursor at 105: previous is the first
\* chapter, because 100 is not less than 100.
C27_Witness ==
  /\ returned
  /\ Len(arg.chapters) = 2
  /\ arg.chapters[1].startIndex = 0
  /\ arg.chapters[2].startIndex = 100
  /\ arg.i = 105
  /\ result.previous = 1

\* ---------------------------------------------------------------------
\* decodeAudioData: 16-bit PCM bytes to normalised samples.  A sample is
\* kept as the exact fraction num / den that the division yields.
\* ---------------------------------------------------------------------

MaxSamples == 2

SampleScale == 32768

Bytes == {0, 1, 64, 127, 128, 255}

\* Faulty variant of int16At: the first byte is the more significant one.
int16BigEndian(b0, b1) ==
  LET u == 256 * b0 + b1
  IN  IF u >= 32768 THEN u - 65536 ELSE u

\* Element of new Int16Array(data.buffer) made of bytes b0, b1 (the build
\* targets little-endian hosts): the 16-bit pattern read as two's complement.
int16At(b0, b1) ==
  LET u == b0 + 256 * b1
  IN  IF u >= 32768 THEN u - 65536 ELSE u

decodeAudioData(data) ==
  [i \in 1..(Len(data) \div 2) |->
     [num |-> int16At(data[2 * i - 1], data[2 * i]), den |-> SampleScale]]

Payloads == UNION { [1..(2 * n) -> Bytes] : n \in 0..MaxSamples }

DecodeInit ==
  /\ freshApp
  /\ db = [b \in BookIds |-> 0]
  /\ books = db
  /\ ttsProvider = "gemini"
  /\ noFind
  /\ callIn \in { << d >> : d \in Payloads }
  /\ callOut = << >>

decodeApply ==
  /\ ~returned
  /\ callOut' = << decodeAudioData(arg) >>
  /\ UNCHANGED callIn
  /\ noFindCall
  /\ idle

DecodeNext == decodeApply

DecodeSpec == DecodeInit /\ [][DecodeNext]_vars

\* C29: a payload of 2n bytes decodes to n samples; sample k is the signed
\* little-endian 16-bit value of bytes 2k, 2k+1 (counted from 0) divided by
\* 32768, so it lies in [-1, 1).
C29_PcmDecode ==
  returned =>
    /\ 2 * Len(result) = Len(arg)
    /\ \A k \in 1..Len(result) :
         LET lo == arg[2 * k - 1]
             hi == arg[2 * k]
         IN  /\ result[k].den = 32768
             /\ result[k].num = lo + 256 * (IF hi >= 128 THEN hi - 256 ELSE hi)
             /\ 0 - result[k].den <= result[k].num
             /\ result[k].num < result[k].den

\* The payload 00 40 00 80 was decoded: 16384 gives 1/2 and -32768 gives -1.
C29_Witness ==
  /\ returned
  /\ arg = << 0, 64, 0, 128 >>
  /\ Len(result) = 2
  /\ result[1].num = 16384 /\ 2 * result[1].num = result[1].den
  /\ result[2].num = 0 - 32768 /\ result[2].num = 0 - result[2].den

\* ---------------------------------------------------------------------
\* One uninterrupted playback: the user opens, imports and positions
\* documents while nothing plays, presses play once, and from then on only
\* timers and backend callbacks run.  A jump made while nothing plays arms
\* no timer, and no utterance is cancelled without a user operation, so
\* settleFire and uttCancelled have nothing to act on here.
\* ---------------------------------------------------------------------

\* User operations happen before the one press of play, which uses the
\* last session id the bound allows.
prePlay == ~isPlaying /\ sessionId < MaxSession - 1

playOnce ==
  /\ ~isPlaying
  /\ sessionId = MaxSession - 1
  /\ togglePlayback("local")

PlayNext ==
  \/ prePlay /\ \E b \in BookIds : openBook(b)
  \/ prePlay /\ \E b \in BookIds : handleFileUpload(b)
  \/ prePlay /\ \E idx \in JumpArgs : jumpTo(idx)
  \/ prePlay /\ goLibrary
  \/ playOnce
  \/ \E p \in pending : respeakFire(p)
  \/ \E p \in pending : \E c \in CharIndexes(p) : uttBoundary(p, c)
  \/ \E p \in pending : uttEnd(p)
  \/ \E p \in pending : geminiResolved(p)
  \/ \E p \in pending : geminiFailed(p)
  \/ \E p \in pending : \E cur \in 0..MaxCur : syncTick(p, cur)
  \/ \E p \in pending : audioEnded(p)

\* An armed timer fires, a request settles, and every unit handed to a
\* backend completes or errors.
PlayFair ==
  /\ WF_vars(\E p \in pending : respeakFire(p))
  /\ WF_vars(\E p \in pending : uttEnd(p))
  /\ WF_vars(\E p \in pending : geminiResolved(p) \/ geminiFailed(p))
  /\ WF_vars(\E p \in pending : audioEnded(p))

PlaySpec == Init /\ [][PlayNext]_vars /\ PlayFair

\* A unit is dispatched either by the press of play, for the block that
\* contains the cursor, or by the timer armed when the unit of the block
\* before it completed.
dispatchedInOrder ==
  \A u \in pending' :
    dispatched(u) =>
      \/ /\ ~isPlaying /\ isPlaying'
         /\ containsIn(displayBlocks(u.book), u.blk + 1, wordIdx)
      \/ \E r \in pending : respeakFire(r) /\ u.blk = r.blk + 1

\* Playback stops only when the unit of the last block completes.
stopsAtEnd ==
  (isPlaying /\ ~isPlaying') =>
    \E p \in pending \ pending' :
      /\ p.kind \in {"utt", "audio"}
      /\ p.blk + 1 = Len(displayBlocks(activeBook))

\* C30: after play on a non-empty open document, with no user operation
\* afterwards and every dispatched unit completing or failing, the
\* controller eventually stops at the end of the document, and the unit of
\* every block from the cursor's block to the last one was dispatched
\* exactly once and in order.
C30_PlaysOnceToTheEnd ==
  /\ [][dispatchedInOrder /\ stopsAtEnd]_vars
  /\ isPlaying ~> ~isPlaying

\* C31: after jumpTo(idx) on an open document, the persisted cursor of that
\* document equals the new, clamped cursor.
C31_JumpPersistsCursor ==
  [][ \A idx \in JumpArgs :
        jumpTo(idx) =>
          /\ wordIdx' = clampIdx(idx, activeBook)
          /\ db'[activeBook] = wordIdx' ]_vars

\* A jump beyond the end of the open document was clamped to its last word
\* and that word is the persisted cursor, which it was not before.
C31_Witness ==
  /\ lastOp.op = "jumpTo"
  /\ activeBook = 1
  /\ wordIdx = totalWordsCount(1) - 1
  /\ db[1] = wordIdx
  /\ db[1] # books[1]

\* C32: opening or importing a document, and every progress write issued
\* by play, pause, jumpTo or the completion of a segment, changes the
\* persisted cursor of the currently open document only.
C32_OnlyOpenDocumentWritten ==
  [][ \A b \in BookIds : b # activeBook' => db'[b] = db[b] ]_vars

\* C34: in every reachable state with a non-empty document open, the cursor
\* is a word of that document: 0 <= cursor <= totalWords - 1.
C34_CursorInDocument ==
  (view = "reader" /\ activeBook # NoBook /\ totalWordsCount(activeBook) > 0) =>
    (0 <= wordIdx /\ wordIdx <= totalWordsCount(activeBook) - 1)

\* Unit p was cancelled: its utterance was dropped or its source stopped.
silenced(p) ==
  \/ p.kind = "utt" /\ p.st = "cancelled"
  \/ p.kind = "audio" /\ p.st = "stopped"

\* C35: whenever the controller is Stopped (after pause, stop, the end of
\* the document or leaving the reader) no narration unit tagged with the
\* live session id is still in flight: the utterance and the audio source
\* are cancelled and no request can still pass the session guard.
C35_StoppedMeansSilent ==
  ~isPlaying => \A p \in liveUnits : silenced(p)

\* C36: when jumpTo is invoked while Playing and playback is paused before
\* the settle timer fires, the timer dispatches no narration unit when it
\* fires, and the controller stays Stopped with the cursor at the jump
\* target: no timer or callback moves it or resumes playback.
C36_SettleAfterPauseIsSilent ==
  [][ /\ \A p \in pending :
           (settleFire(p) /\ ~isPlaying) =>
             /\ pending' = pending \ {p}
             /\ UNCHANGED << isPlaying, wordIdx, currentWordIndex, db, sessionId >>
      /\ (~isPlaying /\ liveUnits = {} /\ lastOp'.op \in AsyncOps) =>
           (~isPlaying' /\ wordIdx' = wordIdx /\ liveUnits' = {}) ]_vars

\* Document 1 was opened and played, the cursor was moved to word 3, the
\* playback was stopped, and then the settle timer of the jump fired.
C36_Witness ==
  /\ lastOp = Op("settle", TRUE)
  /\ ~isPlaying
  /\ activeBook = 1
  /\ wordIdx = 3
  /\ db[1] = 3
  /\ sessionId = 4
  /\ liveUnits = {}

\* C38: every chapter anchor a parser emits starts at a word of the parsed
\* document, 0 <= start < totalWords, also when it is attached to a
\* trailing content item that contributes no words.
C38_AnchorsInsideDocument ==
  (imported /\ result.stored) =>
    \A k \in 1..Len(result.chapters) :
      /\ 0 <= result.chapters[k].startIndex
      /\ result.chapters[k].startIndex < tableWords(result.displayBlocks)

\* --------------------------------------------------------------- bookmarks
MaxBookmarks == 2

\* saveBookToDB: put() replaces the stored record by the object it is given,
\* lastIndex included.
saveBookToDB(d, bookId, lastIndex) == [d EXCEPT ![bookId] = lastIndex]

bookmarkFrame ==
  UNCHANGED << view, activeBook, books, isPlaying, wordIdx, currentWordIndex, sessionId,
               lastSavedIndex, ttsProvider, syncInterval, audioSource, pending,
               blocksIn, wIdxIn, found, callIn, callOut, hidden,
               wasPlayingBeforeInterruption >>

\* The bookmark button of the reader header: the open Book object, with one
\* more bookmark, is put to the store.
addBookmark ==
  /\ view = "reader"
  /\ activeBook \in BookIds
  /\ bookmarks[activeBook] < MaxBookmarks
  /\ bookmarks' = [bookmarks EXCEPT ![activeBook] = @ + 1]
  /\ db' = saveBookToDB(db, activeBook, books[activeBook])
  /\ lastOp' = Op("addBookmark", isPlaying)
  /\ bookmarkFrame

\* The delete button of one bookmark of the sidebar.
deleteBookmark ==
  /\ view = "reader"
  /\ activeBook \in BookIds
  /\ bookmarks[activeBook] > 0
  /\ bookmarks' = [bookmarks EXCEPT ![activeBook] = @ - 1]
  /\ db' = saveBookToDB(db, activeBook, books[activeBook])
  /\ lastOp' = Op("deleteBookmark", isPlaying)
  /\ bookmarkFrame

BookmarkNext ==
  \/ \E b \in BookIds : openBook(b)
  \/ \E b \in BookIds : handleFileUpload(b)
  \/ \E idx \in JumpArgs : jumpTo(idx)
  \/ togglePlayback("local")
  \/ goLibrary
  \/ addBookmark
  \/ deleteBookmark
  \/ \E p \in pending : settleFire(p)
  \/ \E p \in pending : respeakFire(p)
  \/ \E p \in pending : \E c \in CharIndexes(p) : uttBoundary(p, c)
  \/ \E p \in pending : uttEnd(p)
  \/ \E p \in pending : uttCancelled(p)

BookmarkInit == Init /\ ttsProvider = "system"

BookmarkSpec == BookmarkInit /\ [][BookmarkNext]_vars

\* C33: adding or removing a bookmark leaves the persisted cursor of every
\* document as the controller last wrote it.
C33_BookmarksKeepCursor ==
  [][ (addBookmark \/ deleteBookmark) => db' = db ]_vars

\* ------------------------------------------------------------- visibility
\* The handler finds nothing to do: only the visibility changes.
visibilityOnly(src) ==
  /\ lastOp' = Op(src, isPlaying)
  /\ UNCHANGED << view, activeBook, books, db, isPlaying, wordIdx, currentWordIndex,
                  sessionId, lastSavedIndex, ttsProvider, syncInterval, audioSource,
                  pending, wasPlayingBeforeInterruption >>
  /\ UNCHANGED aside

\* The handler may still run once the controls have used up the session ids.
VisCap == MaxSession + 1

\* handleVisibilityChange with document.visibilityState = 'hidden'.
hide ==
  /\ ~hidden
  /\ hidden' = TRUE
  /\ IF isPlaying
     THEN /\ toggle("hide", VisCap)
          /\ wasPlayingBeforeInterruption' = TRUE
     ELSE visibilityOnly("hide")

\* handleVisibilityChange with document.visibilityState = 'visible' (the
\* wake lock it re-acquires first is no part of the play state).
show ==
  /\ hidden
  /\ hidden' = FALSE
  /\ IF wasPlayingBeforeInterruption
     THEN /\ wasPlayingBeforeInterruption' = FALSE
          /\ toggle("show", VisCap)
     ELSE visibilityOnly("show")

\* The page's own controls are out of reach while it is hidden; the
\* MediaSession handlers, the timers and the speech callbacks are not.
VisNext ==
  \/ ~hidden /\ \E b \in BookIds : openBook(b)
  \/ ~hidden /\ \E idx \in JumpArgs : jumpTo(idx)
  \/ ~hidden /\ togglePlayback("local")
  \/ \E src \in {"play", "pause"} : togglePlayback(src)
  \/ hide
  \/ show
  \/ \E p \in pending : settleFire(p)
  \/ \E p \in pending : respeakFire(p)
  \/ \E p \in pending : \E c \in CharIndexes(p) : uttBoundary(p, c)
  \/ \E p \in pending : uttEnd(p)
  \/ \E p \in pending : uttCancelled(p)

VisInit == Init /\ ttsProvider = "system"

VisSpec == VisInit /\ [][VisNext]_vars

hidePauses == (hide /\ isPlaying) => (~isPlaying' /\ db'[activeBook] = wordIdx)

showKeepsPlaying == (show /\ isPlaying) => isPlaying'

\* The flag the handler resumes on is set exactly when the session was
\* Playing at the moment of hiding, and without it show starts nothing.
showKeepsStopped ==
  /\ (hide /\ ~isPlaying) => ~wasPlayingBeforeInterruption'
  /\ (hidden /\ hidden') => wasPlayingBeforeInterruption' = wasPlayingBeforeInterruption
  /\ (show /\ ~wasPlayingBeforeInterruption) => isPlaying' = isPlaying

\* C37: hiding a Playing session pauses it with the cursor persisted;
\* becoming visible never stops a session that is Playing at that moment and
\* never starts one that was Stopped before hiding.
C37_VisibilityNeverInverts ==
  [][ hidePauses /\ showKeepsPlaying /\ showKeepsStopped ]_vars

\* ------------------------------------------------- find on invalid input
\* A stored document without blocks (an import whose pages hold no text).
EmptyBook == 4

\* Word indexes outside the table: negative, and at or beyond totalWords.
OutOfRange(blocks) ==
  { 0 - 2, 0 - 1, tableWords(blocks), tableWords(blocks) + 1 }

ClampInit ==
  /\ freshApp
  /\ db = [b \in {EmptyBook} |-> 0]
  /\ books = db
  /\ ttsProvider \in Providers
  /\ blocksIn \in BlockTables \cup { << >> }
  /\ wIdxIn \in OutOfRange(blocksIn)
  /\ found = NoRecord
  /\ noCall

ClampNext ==
  \/ findApply
  \/ openBook(EmptyBook)
  \/ \E idx \in JumpArgs : jumpTo(idx)
  \/ togglePlayback("local")
  \/ goLibrary
  \/ \E p \in pending : settleFire(p)

ClampSpec == ClampInit /\ [][ClampNext]_vars

\* C39: findBlockIdx returns the last block for an index at or beyond
\* totalWords, the first block for a negative index and 0 for an empty block
\* list; with the empty list open, speak dispatches no utterance and no
\* request.
C39_FindClampsInvalidInput ==
  /\ found # NoRecord =>
       /\ Len(blocksIn) = 0 => found = 0
       /\ (Len(blocksIn) > 0 /\ wIdxIn >= tableWords(blocksIn)) => found = Len(blocksIn) - 1
       /\ (Len(blocksIn) > 0 /\ wIdxIn < 0) => found = 0
  /\ (activeBook # NoBook /\ Len(displayBlocks(activeBook)) = 0) =>
       /\ findBlockIdx(wordIdx, activeBook) = 0
       /\ \A p \in pending : p.kind \notin UnitKinds

C39_Witness ==
  /\ Len(blocksIn) = MaxBlocks
  /\ wIdxIn > tableWords(blocksIn)
  /\ found = MaxBlocks - 1
  /\ activeBook = EmptyBook
  /\ isPlaying
  /\ lastOp.op = "settle"
====
